---- MODULE Spec2Model ----
(***************************************************************************)
(* Model of src/app.py: the Flask handler get_announcements, the scrape    *)
(* routine scrape_announcements and the session factory create_driver.     *)
(*                                                                         *)
(* Every request r runs get_announcements as a sequence of steps, one per  *)
(* call the routine makes on the browser session.  The browser, the page   *)
(* it renders and the client are the environment: what a call observes is  *)
(* drawn from the world the request runs in (world[r]), fixed by Init.     *)
(***************************************************************************)
EXTENDS Integers, Sequences, FiniteSets

\* ---------------------------------------------------------------- bounds
NumReq == 2          \* requests the HTTP layer may be handling
MaxRows == 2         \* rows the rendered table may hold
MaxSymLen == 2       \* characters of a symbol query parameter

\* ------------------------------------------------------ program constants
MaxPolls == 10       \* for _ in range(10)
StableChecks == 2    \* if stable_count >= 2
MinCells == 7        \* if (cells.length < 7) continue

Reqs == 1..NumReq
Sids == 1..NumReq
NoDriver == 0

SeqsUpTo(S, n) == UNION {[1..k -> S] : k \in 0..n}

\* ------------------------------------------------------------- exceptions
\* selenium.common.exceptions: TimeoutException is a WebDriverException,
\* which is an Exception.
FaultKinds == {"TimeoutException", "WebDriverException", "Exception"}

IsInstance(k, cls) ==
    \/ cls = k
    \/ cls = "Exception"
    \/ cls = "WebDriverException" /\ k = "TimeoutException"

TimeoutMsg == "Timeout: Table did not load within the expected time"
WebDriverMsg == "WebDriver error"
ScrapeMsg == "Error scraping announcements"
NoError == [msg |-> "", cause |-> ""]

\* The except clauses of scrape_announcements, in the order they are tried.
HandlersSwapped ==
    << [cls |-> "WebDriverException", msg |-> WebDriverMsg, wraps |-> TRUE],
       [cls |-> "TimeoutException", msg |-> TimeoutMsg, wraps |-> FALSE],
       [cls |-> "Exception", msg |-> ScrapeMsg, wraps |-> TRUE] >>

Handlers ==
    << [cls |-> "TimeoutException", msg |-> TimeoutMsg, wraps |-> FALSE],
       [cls |-> "WebDriverException", msg |-> WebDriverMsg, wraps |-> TRUE],
       [cls |-> "Exception", msg |-> ScrapeMsg, wraps |-> TRUE] >>

\* The exception scrape_announcements raises for a fault of kind k: the
\* first except clause whose class k is an instance of.
Classify(k) ==
    LET n == CHOOSE j \in 1..Len(Handlers) :
                 /\ IsInstance(k, Handlers[j].cls)
                 /\ \A m \in 1..(j - 1) : ~IsInstance(k, Handlers[m].cls)
        h == Handlers[n]
    IN [msg |-> h.msg, cause |-> IF h.wraps THEN k ELSE ""]

\* ---------------------------------------------------------------- symbols
Alphabet == {"a", "A"}
Lower == {"a"}
CasePairs == {<<"a", "A">>}

UpperChar(c) == IF c = "a" THEN "A" ELSE c

upperIdentity(s) == s

\* str.upper()
upper(s) == [j \in 1..Len(s) |-> UpperChar(s[j])]

\* request.args: the symbol parameter is absent, or present with a value.
AllArgs ==
    {[present |-> FALSE, value |-> <<>>]}
        \cup {[present |-> TRUE, value |-> v] : v \in SeqsUpTo(Alphabet, MaxSymLen)}

notSymbolNoneOnly(a) == ~a.present

\* `not symbol`: None and the empty string are both falsy.
notSymbol(a) == ~a.present \/ a.value = <<>>

\* ------------------------------------------------------------------ pages
\* A page is the sequence of rows of #CFanncEquityTable; a row is the
\* number of td cells it holds.
CellCounts == {MinCells - 1, MinCells, MinCells + 1}
AllPages == SeqsUpTo(CellCounts, MaxRows)

skipRowOffByOne(cells) == cells <= MinCells

skipRow(cells) == cells < MinCells

\* The extraction script: one announcement per row that is not skipped,
\* pushed in row order.  An announcement is identified by the row it reads.
RECURSIVE extractFrom(_, _)
extractFrom(page, j) ==
    IF j > Len(page) THEN <<>>
    ELSE IF skipRow(page[j]) THEN extractFrom(page, j + 1)
    ELSE <<[row |-> j, cells |-> page[j]]>> \o extractFrom(page, j + 1)

execute_script(page) == extractFrom(page, 1)

\* --------------------------------------------------------- session factory
StepResults == {"ok"} \cup FaultKinds
AllHosts == [exists : BOOLEAN, fixed : StepResults, manager : StepResults,
             default : StepResults]

\* create_driver on a host: which steps it takes, whether it returns a
\* session, and the error it raises otherwise.
create_driver(h) ==
    LET first == IF h.exists THEN "fixed_path" ELSE "webdriver_manager"
        res1 == IF h.exists THEN h.fixed ELSE h.manager
    IN IF res1 = "ok"
       THEN [exists |-> h.exists, tried |-> <<first>>, ok |-> TRUE, raised |-> "none"]
       ELSE [exists |-> h.exists, tried |-> <<first, "default">>,
             ok |-> h.default = "ok",
             raised |-> IF h.default = "ok" THEN "none" ELSE h.default]

NoCall == [exists |-> FALSE, tried |-> <<>>, ok |-> FALSE, raised |-> "none"]

\* --------------------------------------------------------------- sessions
NoSession == [owner |-> 0, quits |-> 0, late |-> FALSE, foreign |-> FALSE]

\* Request r performs op on session sid.
Use(s, sid, r, op) ==
    [s EXCEPT ![sid] =
        [owner |-> @.owner,
         quits |-> IF op = "quit" THEN @.quits + 1 ELSE @.quits,
         late |-> @.late \/ @.quits > 0,
         foreign |-> @.foreign \/ @.owner # r]]

newSessionShared(s) == 1

\* webdriver.Chrome(...) starts a browser process of its own.
newSession(s) == CHOOSE sid \in Sids : s[sid].owner = 0 /\ \A t \in Sids : s[t].owner = 0 => sid <= t

finallyNoQuit(s, d, r) == s

\* finally: if driver: driver.quit()
finallyQuit(s, d, r) == IF d # NoDriver THEN Use(s, d, r, "quit") ELSE s

stableEnoughLate(sc) == sc >= StableChecks + 1

stableEnough(sc) == sc >= StableChecks

loopOverLate(n) == n >= MaxPolls + 1

\* range(10) is exhausted after n iterations
loopOver(n) == n >= MaxPolls

Last3(w) == IF Len(w) <= 3 THEN w ELSE SubSeq(w, Len(w) - 2, Len(w))

\* --------------------------------------------------------------- responses
NoResp == [status |-> 0, keys |-> {}, symbol |-> <<>>, count |-> 0,
           announcements |-> <<>>, error |-> NoError]

badRequest ==
    [status |-> 400, keys |-> {"error", "example"}, symbol |-> <<>>, count |-> 0,
     announcements |-> <<>>, error |-> [msg |-> "Symbol parameter is required", cause |-> ""]]

errorResponseSwallowed(sym, e) ==
    [status |-> 200, keys |-> {"symbol", "count", "announcements"}, symbol |-> upper(sym),
     count |-> 0, announcements |-> <<>>, error |-> NoError]

errorResponse(sym, e) ==
    [status |-> 500, keys |-> {"error", "symbol"}, symbol |-> upper(sym), count |-> 0,
     announcements |-> <<>>, error |-> e]

okResponse(sym, anns) ==
    [status |-> 200, keys |-> {"symbol", "count", "announcements"}, symbol |-> upper(sym),
     count |-> Len(anns), announcements |-> anns, error |-> NoError]

\* ------------------------------------------------------------------ state
VARIABLES
    world,           \* per request: what its client, host, site and browser may do
    pc,              \* per request: where get_announcements stands
    args,            \* per request: request.args
    driver,          \* per request: the local `driver` (NoDriver is None)
    factory,         \* per request: what its create_driver call did
    url,             \* per request: the symbol in the URL passed to driver.get
    previous_count,  \* per request: local of the stability loop
    stable_count,    \* per request: local of the stability loop
    iter,            \* per request: iterations of the stability loop completed
    win,             \* per request: the last three row-count samples
    nsamples,        \* per request: find_elements calls made by the loop
    nsleeps,         \* per request: time.sleep calls made by the loop
    dom,             \* per request: the page the extraction script ran on
    announcements,   \* per request: the list scrape_announcements returns
    raised,          \* per request: the exception scrape_announcements raises
    faultKind,       \* per request: the kind of the fault caught, "" if none
    faultAt,         \* per request: the step the fault was raised in
    resp,            \* per request: the HTTP response
    sess             \* the browser sessions created so far

vars == <<world, pc, args, driver, factory, url, previous_count, stable_count, iter,
          win, nsamples, nsleeps, dom, announcements, raised, faultKind, faultAt,
          resp, sess>>

frame == <<previous_count, stable_count, iter, win, nsamples, nsleeps>>

FullWorld == [args |-> AllArgs, hosts |-> AllHosts, pages |-> AllPages, faults |-> FaultKinds]
NoWorld == [args |-> {}, hosts |-> {}, pages |-> {}, faults |-> {}]
QuietWorld ==
    [args |-> {[present |-> TRUE, value |-> <<"a">>]},
     hosts |-> {[exists |-> TRUE, fixed |-> "ok", manager |-> "ok", default |-> "ok"]},
     pages |-> {<<MinCells>>},
     faults |-> {"TimeoutException"}]

InitWith(w) ==
    /\ world = w
    /\ pc = [r \in Reqs |-> "idle"]
    /\ args = [r \in Reqs |-> [present |-> FALSE, value |-> <<>>]]
    /\ driver = [r \in Reqs |-> NoDriver]
    /\ factory = [r \in Reqs |-> NoCall]
    /\ url = [r \in Reqs |-> <<>>]
    /\ previous_count = [r \in Reqs |-> 0]
    /\ stable_count = [r \in Reqs |-> 0]
    /\ iter = [r \in Reqs |-> 0]
    /\ win = [r \in Reqs |-> <<>>]
    /\ nsamples = [r \in Reqs |-> 0]
    /\ nsleeps = [r \in Reqs |-> 0]
    /\ dom = [r \in Reqs |-> <<>>]
    /\ announcements = [r \in Reqs |-> <<>>]
    /\ raised = [r \in Reqs |-> NoError]
    /\ faultKind = [r \in Reqs |-> ""]
    /\ faultAt = [r \in Reqs |-> ""]
    /\ resp = [r \in Reqs |-> NoResp]
    /\ sess = [sid \in Sids |-> NoSession]

\* One request at a time, in any world.
Init == InitWith([r \in Reqs |-> IF r = 1 THEN FullWorld ELSE NoWorld])

\* All requests in flight together.
InitConc == InitWith([r \in Reqs |-> QuietWorld])

\* ---------------------------------------------------------------- actions
\* get_announcements, up to the call of scrape_announcements.
Request(r) ==
    /\ pc[r] = "idle"
    /\ \E a \in world[r].args :
        /\ args' = [args EXCEPT ![r] = a]
        /\ IF notSymbol(a)
           THEN /\ resp' = [resp EXCEPT ![r] = badRequest]
                /\ pc' = [pc EXCEPT ![r] = "done"]
           ELSE /\ resp' = resp
                /\ pc' = [pc EXCEPT ![r] = "create"]
    /\ UNCHANGED <<world, driver, factory, url, frame, dom, announcements, raised,
                   faultKind, faultAt, sess>>

\* The body of an except clause: the fault is replaced by the classified
\* exception and control goes to the finally block.
Catch(r, k, at) ==
    /\ raised' = [raised EXCEPT ![r] = Classify(k)]
    /\ faultKind' = [faultKind EXCEPT ![r] = k]
    /\ faultAt' = [faultAt EXCEPT ![r] = at]
    /\ pc' = [pc EXCEPT ![r] = "finally"]

\* driver = create_driver()
CreateDriver(r) ==
    /\ pc[r] = "create"
    /\ \E h \in world[r].hosts :
        LET c == create_driver(h)
            sid == newSession(sess)
        IN /\ factory' = [factory EXCEPT ![r] = c]
           /\ IF c.ok
              THEN /\ driver' = [driver EXCEPT ![r] = sid]
                   /\ sess' = [sess EXCEPT ![sid] =
                                  IF @.owner = 0 THEN [@ EXCEPT !.owner = r] ELSE @]
                   /\ pc' = [pc EXCEPT ![r] = "get"]
                   /\ UNCHANGED <<raised, faultKind, faultAt>>
              ELSE /\ Catch(r, c.raised, "create")
                   /\ UNCHANGED <<driver, sess>>
    /\ UNCHANGED <<world, args, url, frame, dom, announcements, resp>>

\* url = f"...?symbol={symbol.upper()}"; driver.get(url)
Get(r) ==
    /\ pc[r] = "get"
    /\ url' = [url EXCEPT ![r] = upper(args[r].value)]
    /\ sess' = Use(sess, driver[r], r, "get")
    /\ pc' = [pc EXCEPT ![r] = "wait"]
    /\ UNCHANGED <<world, args, driver, factory, frame, dom, announcements, raised,
                   faultKind, faultAt, resp>>

\* wait.until(presence_of_element_located(...)) returns: a row is present.
\* The loop locals are initialised.
Wait(r) ==
    /\ pc[r] = "wait"
    /\ \E p \in world[r].pages : Len(p) > 0
    /\ sess' = Use(sess, driver[r], r, "wait")
    /\ previous_count' = [previous_count EXCEPT ![r] = 0]
    /\ stable_count' = [stable_count EXCEPT ![r] = 0]
    /\ pc' = [pc EXCEPT ![r] = "poll"]
    /\ UNCHANGED <<world, args, driver, factory, url, iter, win, nsamples, nsleeps, dom,
                   announcements, raised, faultKind, faultAt, resp>>

\* One iteration of the stability loop: sample the row count, compare it
\* with the previous one, break or sleep.
Poll(r) ==
    /\ pc[r] = "poll"
    /\ \E current_count \in {Len(p) : p \in world[r].pages} :
        LET same == current_count = previous_count[r] /\ current_count > 0
            sc == IF same THEN stable_count[r] + 1 ELSE 0
            break == same /\ stableEnough(sc)
        IN /\ sess' = Use(sess, driver[r], r, "find_elements")
           /\ nsamples' = [nsamples EXCEPT ![r] = @ + 1]
           /\ win' = [win EXCEPT ![r] = Last3(Append(@, current_count))]
           /\ stable_count' = [stable_count EXCEPT ![r] = sc]
           /\ IF break
              THEN /\ pc' = [pc EXCEPT ![r] = "extract"]
                   /\ UNCHANGED <<previous_count, iter, nsleeps>>
              ELSE /\ previous_count' = [previous_count EXCEPT ![r] = current_count]
                   /\ nsleeps' = [nsleeps EXCEPT ![r] = @ + 1]
                   /\ iter' = [iter EXCEPT ![r] = @ + 1]
                   /\ pc' = [pc EXCEPT ![r] =
                                IF loopOver(iter[r] + 1) THEN "extract" ELSE "poll"]
    /\ UNCHANGED <<world, args, driver, factory, url, dom, announcements, raised,
                   faultKind, faultAt, resp>>

\* announcements = driver.execute_script(...); return announcements
Extract(r) ==
    /\ pc[r] = "extract"
    /\ \E p \in world[r].pages :
        /\ dom' = [dom EXCEPT ![r] = p]
        /\ announcements' = [announcements EXCEPT ![r] = execute_script(p)]
    /\ sess' = Use(sess, driver[r], r, "execute_script")
    /\ pc' = [pc EXCEPT ![r] = "finally"]
    /\ UNCHANGED <<world, args, driver, factory, url, frame, raised, faultKind,
                   faultAt, resp>>

\* A call on the session raises instead of returning.
Fault(r) ==
    /\ pc[r] \in {"get", "wait", "poll", "extract"}
    /\ \E k \in world[r].faults : Catch(r, k, pc[r])
    /\ sess' = Use(sess, driver[r], r, pc[r])
    /\ url' = IF pc[r] = "get" THEN [url EXCEPT ![r] = upper(args[r].value)] ELSE url
    /\ UNCHANGED <<world, args, driver, factory, frame, dom, announcements, resp>>

\* The finally block; scrape_announcements then returns or raises and its
\* frame is gone.
Finally(r) ==
    /\ pc[r] = "finally"
    /\ sess' = finallyQuit(sess, driver[r], r)
    /\ previous_count' = [previous_count EXCEPT ![r] = 0]
    /\ stable_count' = [stable_count EXCEPT ![r] = 0]
    /\ iter' = [iter EXCEPT ![r] = 0]
    /\ win' = [win EXCEPT ![r] = <<>>]
    /\ nsamples' = [nsamples EXCEPT ![r] = 0]
    /\ nsleeps' = [nsleeps EXCEPT ![r] = 0]
    /\ pc' = [pc EXCEPT ![r] = "respond"]
    /\ UNCHANGED <<world, args, driver, factory, url, dom, announcements, raised,
                   faultKind, faultAt, resp>>

\* get_announcements, after scrape_announcements returned or raised.
Respond(r) ==
    /\ pc[r] = "respond"
    /\ resp' = [resp EXCEPT ![r] =
                   IF raised[r] = NoError
                   THEN okResponse(args[r].value, announcements[r])
                   ELSE errorResponse(args[r].value, raised[r])]
    /\ pc' = [pc EXCEPT ![r] = "done"]
    /\ UNCHANGED <<world, args, driver, factory, url, frame, dom, announcements, raised,
                   faultKind, faultAt, sess>>

Next ==
    \E r \in Reqs :
        \/ Request(r)
        \/ CreateDriver(r)
        \/ Get(r)
        \/ Wait(r)
        \/ Poll(r)
        \/ Extract(r)
        \/ Fault(r)
        \/ Finally(r)
        \/ Respond(r)

Spec == Init /\ [][Next]_vars

SpecConc == InitConc /\ [][Next]_vars

TypeOK ==
    /\ \A r \in Reqs : pc[r] \in {"idle", "create", "get", "wait", "poll", "extract",
                                   "finally", "respond", "done"}
    /\ \A r \in Reqs : driver[r] \in Sids \cup {NoDriver}

\* ------------------------------------------------------------- properties
Returned(r) == pc[r] \in {"respond", "done"}
Caught(r) == faultKind[r] # ""
AllEqualPositive(w) == \A j \in 1..Len(w) : w[j] = w[1] /\ w[j] > 0

\* C1: a session that create_driver returned is quit exactly once by the
\* time scrape_announcements has returned or raised, whatever the exit path,
\* it is not quit before the finally block, and no call is made on a session
\* after its quit.
QuitExactlyOnce ==
    /\ \A sid \in Sids : sess[sid].quits <= 1 /\ ~sess[sid].late
    /\ \A r \in Reqs :
          driver[r] # NoDriver =>
              sess[driver[r]].quits = (IF Returned(r) THEN 1 ELSE 0)

QuitAfterWaitTimeout ==
    \E r \in Reqs :
        /\ pc[r] = "done" /\ driver[r] # NoDriver
        /\ faultKind[r] = "TimeoutException" /\ faultAt[r] = "wait"
        /\ resp[r].status = 500
        /\ sess[driver[r]].quits = 1

\* C2: a request whose symbol parameter is missing or empty gets a 400
\* response, and neither create_driver nor any session call happens for it.
MissingSymbolIs400 ==
    \A r \in Reqs :
        (pc[r] # "idle" /\ (~args[r].present \/ Len(args[r].value) = 0)) =>
            /\ pc[r] = "done"
            /\ resp[r].status = 400
            /\ factory[r] = NoCall
            /\ driver[r] = NoDriver
            /\ \A sid \in Sids : sess[sid].owner # r

EmptySymbolRejected ==
    \E r \in Reqs :
        /\ pc[r] = "done" /\ args[r].present /\ args[r].value = <<>>
        /\ resp[r].status = 400

\* C3 as stated: only a timeout of the presence wait gives the timeout
\* message; every other WebDriverException gives the 'WebDriver error'
\* message; every other fault gives 'Error scraping announcements'.
ClassifiedByPhase ==
    \A r \in Reqs :
        (pc[r] = "done" /\ Caught(r)) =>
            /\ resp[r].status = 500
            /\ resp[r].error.msg =
                  IF faultKind[r] = "TimeoutException" /\ faultAt[r] = "wait"
                  THEN TimeoutMsg
                  ELSE IF faultKind[r] \in {"TimeoutException", "WebDriverException"}
                  THEN WebDriverMsg
                  ELSE ScrapeMsg

\* C3 as amended: a TimeoutException gives the timeout message at whichever
\* step it is raised, any other WebDriverException gives the 'WebDriver
\* error' message, any other fault gives 'Error scraping announcements',
\* the last two wrapping the cause; a caught fault ends the routine (no
\* further step is taken) and the response is a 500 without announcements.
ClassifiedByKind ==
    \A r \in Reqs :
        Caught(r) =>
            /\ pc[r] \in {"finally", "respond", "done"}
            /\ announcements[r] = <<>>
            /\ pc[r] = "done" =>
                  /\ resp[r].status = 500
                  /\ resp[r].keys = {"error", "symbol"}
                  /\ resp[r].error.msg =
                        IF faultKind[r] = "TimeoutException" THEN TimeoutMsg
                        ELSE IF faultKind[r] = "WebDriverException" THEN WebDriverMsg
                        ELSE ScrapeMsg
                  /\ resp[r].error.cause =
                        IF faultKind[r] = "TimeoutException" THEN "" ELSE faultKind[r]

WebDriverFaultIs500 ==
    \E r \in Reqs :
        /\ pc[r] = "done" /\ faultKind[r] = "WebDriverException" /\ faultAt[r] = "extract"
        /\ resp[r].status = 500 /\ resp[r].error.msg = WebDriverMsg

GoodRows(page) == {j \in 1..Len(page) : page[j] >= 7}

\* C4: the extraction returns one announcement for each row with at least
\* 7 cells and none for a shorter row, in row order, and the 200 response
\* carries that list and its length as count.
OnePerFullRow ==
    \A r \in Reqs :
        LET a == announcements[r]
        IN /\ Len(a) = Cardinality(GoodRows(dom[r]))
           /\ {a[k].row : k \in 1..Len(a)} = GoodRows(dom[r])
           /\ \A k \in 1..Len(a) : a[k].cells = dom[r][a[k].row]
           /\ \A k, l \in 1..Len(a) : k < l => a[k].row < a[l].row
           /\ resp[r].status = 200 =>
                 /\ resp[r].count = Cardinality(GoodRows(dom[r]))
                 /\ resp[r].announcements = a

ShortRowSkipped ==
    \E r \in Reqs :
        /\ pc[r] = "done" /\ resp[r].status = 200
        /\ dom[r] = <<6, 7>>
        /\ resp[r].count = 1 /\ resp[r].announcements[1].row = 2

IsUpperOf(u, s) ==
    /\ Len(u) = Len(s)
    /\ \A j \in 1..Len(s) :
          /\ u[j] \notin Lower
          /\ u[j] = s[j] \/ <<s[j], u[j]>> \in CasePairs

Navigated(r) ==
    \/ pc[r] \in {"wait", "poll", "extract"}
    \/ pc[r] \in {"finally", "respond", "done"} /\ driver[r] # NoDriver

\* C5: for a non-empty symbol the symbol field of the 200 and of the 500
\* response is the input upper-cased, and so is the symbol of the URL the
\* session is navigated to.
SymbolUpperCased ==
    \A r \in Reqs :
        /\ resp[r].status \in {200, 500} =>
              /\ "symbol" \in resp[r].keys
              /\ IsUpperOf(resp[r].symbol, args[r].value)
        /\ Navigated(r) => IsUpperOf(url[r], args[r].value)

LowerCaseEchoedUpper ==
    \E r \in Reqs :
        /\ pc[r] = "done" /\ resp[r].status = 500
        /\ args[r].value = <<"a", "A">>
        /\ resp[r].symbol = <<"A", "A">> /\ url[r] = <<"A", "A">>

\* C6: with several requests in flight each request has a session of its
\* own, a session is only ever called by the request that created it, and
\* what a request returns is what its own session showed it.
SessionsNotShared ==
    /\ \A sid \in Sids : ~sess[sid].foreign /\ sess[sid].quits <= 1 /\ ~sess[sid].late
    /\ \A r \in Reqs : driver[r] # NoDriver => sess[driver[r]].owner = r
    /\ \A r1, r2 \in Reqs :
          (r1 # r2 /\ driver[r1] # NoDriver) => driver[r1] # driver[r2]
    /\ \A r \in Reqs :
          /\ driver[r] # NoDriver =>
                sess[driver[r]].quits = (IF Returned(r) THEN 1 ELSE 0)
          /\ pc[r] = "done" =>
                /\ resp[r].status = (IF Caught(r) THEN 500 ELSE 200)
                /\ resp[r].count = Cardinality(GoodRows(dom[r]))

TwoSessionsInFlight ==
    \E r1, r2 \in Reqs :
        /\ r1 # r2
        /\ pc[r1] = "poll" /\ pc[r2] = "extract"
        /\ driver[r1] # NoDriver /\ driver[r2] # NoDriver

\* C7 as stated: once two consecutive samples are equal and positive no
\* further sample is taken.
StopsAfterTwoEqualSamples ==
    \A r \in Reqs :
        (Len(win[r]) >= 2 /\ AllEqualPositive(SubSeq(win[r], Len(win[r]) - 1, Len(win[r]))))
            => pc[r] # "poll"

\* C7 as amended: once three consecutive samples are equal and positive no
\* further sample is taken and the routine goes on to the extraction
\* without sleeping; the loop is left before ten samples only in that case.
StopsAfterThreeEqualSamples ==
    \A r \in Reqs :
        /\ (Len(win[r]) = 3 /\ AllEqualPositive(win[r])) =>
              /\ pc[r] \in {"extract", "finally"}
              /\ nsleeps[r] = nsamples[r] - 1
        /\ (pc[r] = "extract" /\ nsamples[r] < 10) =>
              Len(win[r]) = 3 /\ AllEqualPositive(win[r])

EarlyStop ==
    \E r \in Reqs :
        /\ pc[r] = "extract" /\ nsamples[r] = 4 /\ nsleeps[r] = 3
        /\ win[r] = <<2, 2, 2>>

\* C8: the stability loop takes at most 10 samples and 10 sleeps, and when
\* the 10 iterations are used up without stability the routine goes on to
\* the extraction: the polling is over and no fault was raised by it.
PollingBounded ==
    \A r \in Reqs :
        /\ nsamples[r] <= 10 /\ nsleeps[r] <= 10 /\ nsleeps[r] <= nsamples[r]
        /\ pc[r] = "poll" => nsamples[r] < 10
        /\ nsleeps[r] = 10 =>
              /\ pc[r] \in {"extract", "finally"}
              /\ faultAt[r] \in {"", "extract"}

ExhaustedThenExtracted ==
    \E r \in Reqs :
        /\ pc[r] = "finally" /\ ~Caught(r)
        /\ nsamples[r] = 10 /\ nsleeps[r] = 10
        /\ win[r] = <<0, 0, 0>>
        /\ Len(announcements[r]) = 2

Chain == <<"fixed_path", "webdriver_manager", "default">>

\* C9: create_driver tries the fixed path, then webdriver-manager, then the
\* default discovery, each failure falling through to the next step, and
\* fails only when all three have failed, with the error of the last one.
\* (A fixed path that does not exist counts as the first step failing.)
FallsThroughInOrder ==
    \A r \in Reqs :
        LET f == factory[r]
            start == IF f.exists THEN 1 ELSE 2
        IN f # NoCall =>
              /\ f.tried = SubSeq(Chain, start, start + Len(f.tried) - 1)
              /\ ~f.ok => f.tried[Len(f.tried)] = "default" /\ f.raised \in FaultKinds

\* C10: a TimeoutException is reported with the timeout message, never as
\* a WebDriver error, at whichever step it is raised: session acquisition,
\* navigation, presence wait, row-count polling or extraction.
TimeoutByType ==
    \A r \in Reqs :
        faultKind[r] = "TimeoutException" =>
            /\ faultAt[r] \in {"create", "get", "wait", "poll", "extract"}
            /\ raised[r].msg = TimeoutMsg
            /\ raised[r].msg # WebDriverMsg
            /\ pc[r] = "done" => resp[r].error = raised[r]

TimeoutInNavigation ==
    \E r \in Reqs :
        /\ pc[r] = "done" /\ faultKind[r] = "TimeoutException" /\ faultAt[r] = "get"
        /\ resp[r].error.msg = TimeoutMsg
====
